---- MODULE Spec2Model ----
(***************************************************************************)
(* coc-yank: the TextYankPost handler (highlight + history record) and the *)
(* 'yank' completion source of src/index.ts.                               *)
(*                                                                         *)
(* A JavaScript string is modelled as the sequence of its UTF-16 code      *)
(* units; each unit is named by a TLA+ string ("a", " ", "U+00E9", ...).   *)
(* String.length is Len, Buffer.byteLength is the sum of the units' UTF-8  *)
(* widths.                                                                 *)
(*                                                                         *)
(* Spec runs the callback for two events, which may overlap: each await is *)
(* a suspension point, and the editor call it waits for takes effect when  *)
(* the callback resumes.  SpecCompletion asks for completion over every    *)
(* store of bounded length.                                                *)
(***************************************************************************)
EXTENDS Integers, Sequences, FiniteSets, TLC

Min(a, b) == IF a < b THEN a ELSE b
Max(a, b) == IF a < b THEN b ELSE a

(***************************************************************************)
(* Strings                                                                 *)
(***************************************************************************)

\* The control byte 0x16 that starts a block-wise register type.
CtrlV == "0x16"
\* U+FFFD, what Buffer#toString('utf8') yields for a cut multi-byte sequence.
Replacement == "U+FFFD"
NL == "\n"

\* Number of UTF-8 bytes of one code unit (all units used are in the BMP).
Utf8Width(c) ==
  CASE c = "U+00E9" -> 2
    [] c = Replacement -> 3
    [] OTHER -> 1

\* The characters /\s/ matches.
IsSpace(c) == c \in {" ", "\t", NL}

RECURSIVE byteLength(_)
byteLength(s) == IF s = <<>> THEN 0 ELSE Utf8Width(Head(s)) + byteLength(Tail(s))

\* Buffer.from(content, 'utf8'): byte k of the n bytes of unit c is <<c, k>>.
RECURSIVE utf8Encode(_)
utf8Encode(s) ==
  IF s = <<>> THEN <<>>
  ELSE [k \in 1..Utf8Width(Head(s)) |-> <<Head(s), k>>] \o utf8Encode(Tail(s))

\* The number of bytes, from index i on, that continue the sequence led at i.
RECURSIVE Continuation(_, _, _)
Continuation(buf, i, k) ==
  IF i + k <= Len(buf) /\ k < Utf8Width(buf[i][1])
     /\ buf[i + k][1] = buf[i][1] /\ buf[i + k][2] = k + 1
  THEN Continuation(buf, i, k + 1)
  ELSE k

\* buf.toString('utf8'): a complete sequence decodes to its unit, a cut one
\* (a lead byte without all of its continuation bytes) and a stray
\* continuation byte decode to U+FFFD.
RECURSIVE utf8Decode(_, _)
utf8Decode(buf, i) ==
  IF i > Len(buf) THEN <<>>
  ELSE IF buf[i][2] # 1 THEN <<Replacement>> \o utf8Decode(buf, i + 1)
  ELSE LET n == Continuation(buf, i, 1)
       IN  IF n = Utf8Width(buf[i][1])
           THEN <<buf[i][1]>> \o utf8Decode(buf, i + n)
           ELSE <<Replacement>> \o utf8Decode(buf, i + n)

\* Array/String/Buffer slice(start, end) for start, end >= 0 (0-based,
\* end exclusive, both clamped to the length).
slice(s, start, end) ==
  LET e == Min(end, Len(s))
      b == Min(start, e)
  IN  SubSeq(s, b + 1, e)

\* function byteSlice(content, start, end)
byteSlice(content, start, end) == utf8Decode(slice(utf8Encode(content), start, end), 1)

startsWith(s, p) == Len(p) <= Len(s) /\ SubSeq(s, 1, Len(p)) = p

\* s.match(/^\s*/)[0].length
RECURSIVE LeadingSpace(_)
LeadingSpace(s) ==
  IF s # <<>> /\ IsSpace(Head(s)) THEN 1 + LeadingSpace(Tail(s)) ELSE 0

RECURSIVE TrailingSpace(_)
TrailingSpace(s) ==
  IF s # <<>> /\ IsSpace(s[Len(s)]) THEN 1 + TrailingSpace(SubSeq(s, 1, Len(s) - 1)) ELSE 0

\* s.replace(/^\s*/, '')
trimStart(s) == SubSeq(s, LeadingSpace(s) + 1, Len(s))

\* s.trim()
trim(s) == LET t == trimStart(s) IN SubSeq(t, 1, Len(t) - TrailingSpace(t))

\* /^\s*$/.test(s)
IsBlank(s) == \A k \in 1..Len(s) : IsSpace(s[k])

\* lines.join('\n')
RECURSIVE join(_)
join(ls) ==
  IF ls = <<>> THEN <<>>
  ELSE IF Len(ls) = 1 THEN ls[1]
  ELSE ls[1] \o <<NL>> \o join(Tail(ls))

RECURSIVE reverse(_)
reverse(s) == IF s = <<>> THEN <<>> ELSE reverse(Tail(s)) \o <<Head(s)>>

RECURSIVE SeqSum(_)
SeqSum(s) == IF s = <<>> THEN 0 ELSE Head(s) + SeqSum(Tail(s))

(***************************************************************************)
(* Bounds                                                                  *)
(***************************************************************************)

\* Largest number of lines one yank captures.
MaxYankLines == 2
\* Largest width, in columns, of a block-wise selection.
MaxBlockWidth == 2
\* The configured value of yank.byteLengthLimit (10240 unless configured).
SmallByteLengthLimit == 5

(***************************************************************************)
(* Configuration, document, editor                                         *)
(***************************************************************************)

\* The values config.get<number>('byteLengthLimit', 10240) is configured to.
ByteLengthLimits == {SmallByteLengthLimit}
\* config.get<number>('byteLengthLimit', 10240)
DefaultByteLengthLimit == 10240

\* The buffer the document is attached to, and a buffer coc holds no
\* document for (workspace.getDocument gives undefined).
AttachedBufnr == 1
DetachedBufnr == 2
Bufnrs == {AttachedBufnr, DetachedBufnr}

abc == <<"a", "b", "c">>
abcd == <<"a", "b", "c", "d">>

\* The attached document: its lines, uri and filetype.
Document == << <<"a", "b", "c", "d">>, <<"U+00E9", "a">> >>
DocUri == "file:///a.py"
DocFiletype == "python"

\* workspace.getDocument(bufnr) is defined
HasDocument(bufnr) == bufnr = AttachedBufnr

\* doc.getline(line): the 0-based line, '' past the end.
getline(ls, line) == IF line + 1 \in 1..Len(ls) THEN ls[line + 1] ELSE <<>>

\* The 1-based byte column (as getpos() and col() report it) of the
\* character at 0-based index ci of line.
ByteCol(line, ci) == byteLength(SubSeq(line, 1, ci)) + 1

\* The byte columns of line a cursor can be on: the first byte of each
\* character (column 1 on an empty line).
CursorCols(line) ==
  IF line = <<>> THEN {1} ELSE {ByteCol(line, ci) : ci \in 0..(Len(line) - 1)}

\* The handler invocations: the callback of the first and of the second
\* TextYankPost event, which may overlap.
Tasks == {1, 2}

\* The digits of a block width, as the editor appends them to 0x16.
Digit(n) == CASE n = 0 -> "0" [] n = 1 -> "1" [] n = 2 -> "2" [] n = 3 -> "3"
              [] n = 4 -> "4" [] n = 5 -> "5" [] n = 6 -> "6" [] n = 7 -> "7"
              [] n = 8 -> "8" [] OTHER -> "9"

\* What the editor captures, and where it puts the '[ mark, for a
\* character-wise yank of ls from (l1, c1) to (l2, c2) inclusive
\* (1-based lines, 0-based character indices).
CharYank(ls, l1, c1, l2, c2) ==
  [regtype     |-> <<"v">>,
   regcontents |-> IF l1 = l2
                   THEN <<SubSeq(ls[l1], c1 + 1, c2 + 1)>>
                   ELSE <<SubSeq(ls[l1], c1 + 1, Len(ls[l1]))>>
                        \o SubSeq(ls, l1 + 1, l2 - 1)
                        \o <<SubSeq(ls[l2], 1, c2 + 1)>>,
   lnum        |-> l1,
   col         |-> ByteCol(ls[l1], c1)]

\* A line-wise yank of lines l1..l2.
LineYank(ls, l1, l2) ==
  [regtype |-> <<"V">>, regcontents |-> SubSeq(ls, l1, l2), lnum |-> l1, col |-> 1]

\* A block-wise yank of lines l1..l2, w columns wide from character index c
\* (every character of the document is one column wide).
BlockYank(ls, l1, l2, c, w) ==
  [regtype     |-> <<CtrlV, Digit(w)>>,
   regcontents |-> [k \in 1..(l2 - l1 + 1) |-> SubSeq(ls[l1 + k - 1], c + 1, Min(c + w, Len(ls[l1 + k - 1])))],
   lnum        |-> l1,
   col         |-> ByteCol(ls[l1], c)]

LineSpans(ls) ==
  {<<l1, l2>> \in (1..Len(ls)) \X (1..Len(ls)) : l1 <= l2 /\ l2 - l1 < MaxYankLines}

\* The character-wise yanks over the line span sp.
CharYanks(ls, sp) ==
  UNION {{CharYank(ls, sp[1], c1, sp[2], c2) :
            c2 \in {c \in 0..(Len(ls[sp[2]]) - 1) : sp[1] = sp[2] => c1 <= c}}
         : c1 \in 0..(Len(ls[sp[1]]) - 1)}

\* The block-wise yanks over the line span sp.
BlockYanks(ls, sp) ==
  {BlockYank(ls, sp[1], sp[2], c, w) :
     c \in 0..(Len(ls[sp[1]]) - 1), w \in 1..MaxBlockWidth}

\* Every yank the editor can make of the document.
Yanks(ls) ==
  UNION {CharYanks(ls, sp) \cup {LineYank(ls, sp[1], sp[2])} \cup BlockYanks(ls, sp)
         : sp \in LineSpans(ls)}

\* A register type that is none of 'v', 'V' and 0x16..., as getregtype()
\* gives for an empty or unknown register.
UnknownRegtype == <<>>

\* The payloads of TextYankPost: a yank of the document, or a payload whose
\* register type is not recognized.
YankPayloads(ls) ==
  Yanks(ls) \cup {[LineYank(ls, sp[1], sp[2]) EXCEPT !.regtype = UnknownRegtype]
                  : sp \in LineSpans(ls)}

\* v:event.operator
Operators == {"y", "d"}

\* win_getid()
WindowId == 1000

(***************************************************************************)
(* The TextYankPost callback's pure parts                                  *)
(***************************************************************************)

Position(line, character) == [line |-> line, character |-> character]
Range(start, end) == [start |-> start, end |-> end]

\* let len = 0; for (let s of regcontents) len += Buffer.byteLength(s, 'utf8')
TotalByteLength(regcontents) ==
  SeqSum([k \in 1..Len(regcontents) |-> byteLength(regcontents[k])])

\* if (len > maxLength) return
OverLimit(regcontents, limit) == TotalByteLength(regcontents) > limit

Character_ByteColumn(ls, lnum, col) == col

\* let character = byteSlice(doc.getline(lnum - 1), 0, col).length
Character(ls, lnum, col) == Len(byteSlice(getline(ls, lnum - 1), 0, col))

\* regtype.startsWith('\x16')
IsBlock(regtype) == startsWith(regtype, <<CtrlV>>)

\* The body of the block loop for line i, with the column col('.') gave.
BlockRange(ls, i, curcol, lnum, regcontents) ==
  LET line == getline(ls, i - 1)
      startCharacter == Len(byteSlice(line, 0, curcol - 1))
  IN  Range(Position(i - 1, startCharacter),
            Position(i - 1, startCharacter + Len(regcontents[i - lnum + 1])))

\* regtype == 'v'
CharRanges(lnum, character, regcontents) ==
  LET n == Len(regcontents)
      endCharacter == IF n = 1 THEN character + Len(regcontents[1]) - 1
                      ELSE Len(regcontents[n])
  IN  <<Range(Position(lnum - 1, character), Position(lnum + n - 2, endCharacter))>>

LineRanges_FragmentLength(ls, lnum, regcontents) ==
  [k \in 1..Len(regcontents) |->
     Range(Position(lnum + k - 2, 0), Position(lnum + k - 2, Len(regcontents[k])))]

\* regtype == 'V'
LineRanges(ls, lnum, regcontents) ==
  [k \in 1..Len(regcontents) |->
     Range(Position(lnum + k - 2, 0), Position(lnum + k - 2, Len(getline(ls, lnum + k - 2))))]

TooShort_OffByOne(regcontents) == Len(join(regcontents)) < 3

\* if (content.length < 4) return
TooShort(regcontents) == Len(join(regcontents)) < 4

\* `${doc.uri}\t${lnum}\t${col}`
Path(uri, lnum, col) == <<uri, lnum, col>>

StoredRegtype_ExactMatch(regtype) == IF regtype = <<CtrlV>> THEN <<"^", "v">> ELSE regtype

\* regtype = regtype.startsWith('\x16') ? '^v' : regtype
StoredRegtype(regtype) == IF startsWith(regtype, <<CtrlV>>) THEN <<"^", "v">> ELSE regtype

\* The arguments of db.add(regcontents, regtype, path, doc.filetype)
HistoryRecord(regcontents, regtype, uri, lnum, col, filetype) ==
  [content  |-> regcontents,
   regtype  |-> StoredRegtype(regtype),
   path     |-> Path(uri, lnum, col),
   filetype |-> filetype]

\* The store (class DB): add appends a record, load gives the records in
\* the order they were appended.
add(items, record) == Append(items, record)
load(items) == items

(***************************************************************************)
(* State                                                                   *)
(***************************************************************************)

VARIABLES
  enable,     \* config 'highlight.enable'
  maxLength,  \* config 'byteLengthLimit', read once in activate()
  lines,      \* the document's lines
  mark,       \* the editor's '[ mark: [lnum, col], col a 1-based byte column
  cursor,     \* the window view: the cursor's [lnum, col]
  winid,      \* activate()'s `let winid`
  pc,         \* per handler task: the await it is suspended at
  frame,      \* per handler task: the callback's arguments and locals
  matches,    \* the overlays on display: [id, ranges]
  timers,     \* the pending setTimeout callbacks, each holding its ids
  nextId,     \* the next overlay handle
  db,         \* the store's records, oldest first
  origin,     \* per record of db: the event it came from and its raw regtype
  delivered,  \* the number of TextYankPost events fired so far
  request,    \* the last completion request
  loaded,     \* whether the last completion request called db.load()
  survivors,  \* the last request's items after filtering and slice(0, limit)
  result      \* what the last completion request returned

editorVars == <<lines, mark, cursor>>
overlayVars == <<matches, timers, nextId>>
storeVars == <<db, origin>>
completionVars == <<request, loaded, survivors, result>>
configVars == <<enable, maxLength>>
vars == <<enable, maxLength, lines, mark, cursor, winid, pc, frame, matches, timers,
          nextId, db, origin, delivered, request, loaded, survivors, result>>

NoPosition == [lnum |-> 0, col |-> 0]
\* A request's option: absent, or with the typed input (which may be
\* absent too), the current line and a column in it.
NoOption == [present |-> FALSE, hasInput |-> FALSE, input |-> <<>>, line |-> <<>>, col |-> 0]
NoRequest == [enabled |-> TRUE, limit |-> 0, languageId |-> "", option |-> NoOption]
\* A completion result: undefined, or an array of items.
Undefined == [defined |-> FALSE, items |-> <<>>]
Array(items) == [defined |-> TRUE, items |-> items]

\* The callback's locals before it is called.
NoFrame ==
  [regtype |-> <<>>, operator |-> "", regcontents |-> <<>>, bufnr |-> 0,
   lnum |-> 0, col |-> 0, character |-> 0, ranges |-> <<>>, view |-> NoPosition,
   i |-> 0, ids |-> <<>>, applied |-> FALSE, restored |-> FALSE]

\* The state the constructor leaves, but for the configuration and the store.
InitCallback ==
  /\ lines = Document
  /\ mark = [lnum |-> 1, col |-> 1]
  /\ cursor = [lnum |-> 1, col |-> 1]
  /\ winid = 0
  /\ pc = [t \in Tasks |-> "idle"]
  /\ frame = [t \in Tasks |-> NoFrame]
  /\ matches = {}
  /\ timers = {}
  /\ nextId = 1
  /\ delivered = 0
  /\ request = NoRequest
  /\ loaded = FALSE
  /\ survivors = <<>>
  /\ result = Array(<<>>)

\* The state the constructor leaves, but for the store.
InitHandler ==
  /\ enable \in BOOLEAN
  /\ maxLength \in ByteLengthLimits
  /\ InitCallback

Init ==
  /\ InitHandler
  /\ db = <<>>
  /\ origin = <<>>

(***************************************************************************)
(* The TextYankPost callback, one action per stretch between two awaits    *)
(***************************************************************************)

\* lines 83-87 up to the call of db.add: where the callback goes next.
RecordOrReturn(regcontents) == IF TooShort(regcontents) THEN "done" ELSE "db.add"

\* The editor yanks one of payloads and fires TextYankPost; lines 28-38 up
\* to the call of getpos.
Deliver(t, payloads, operators, bufnrs) ==
  /\ pc[t] = "idle"
  /\ delivered = t - 1
  /\ \E y \in payloads, operator \in operators, bufnr \in bufnrs :
       /\ mark' = [lnum |-> y.lnum, col |-> y.col]
       /\ cursor' = [lnum |-> y.lnum, col |-> y.col]
       /\ frame' = [frame EXCEPT ![t] =
                      IF ~HasDocument(bufnr) THEN [NoFrame EXCEPT !.bufnr = bufnr]
                      ELSE [NoFrame EXCEPT !.regtype = y.regtype,
                                           !.operator = operator,
                                           !.regcontents = y.regcontents,
                                           !.bufnr = bufnr]]
       /\ pc' = [pc EXCEPT ![t] =
                   IF ~HasDocument(bufnr) THEN "done"
                   ELSE IF OverLimit(y.regcontents, maxLength) THEN "done"
                   ELSE "getpos"]
  /\ delivered' = delivered + 1
  /\ UNCHANGED <<configVars, lines, winid, overlayVars, storeVars, completionVars>>

\* Any yank of the document, with either operator, in either buffer.
TextYankPost(t) == Deliver(t, YankPayloads(lines), Operators, Bufnrs)

\* getpos returns; lines 38-43, and 83-86 for another operator than 'y'.
GetPos(t) ==
  /\ pc[t] = "getpos"
  /\ LET f == frame[t]
         character == Character(lines, mark.lnum, mark.col)
     IN  /\ frame' = [frame EXCEPT ![t].lnum = mark.lnum, ![t].col = mark.col,
                                   ![t].character = character]
         /\ pc' = [pc EXCEPT ![t] =
                     IF f.operator = "y"
                     THEN (IF ~enable THEN "done" ELSE "win_getid")
                     ELSE RecordOrReturn(f.regcontents)]
  /\ UNCHANGED <<configVars, editorVars, winid, overlayVars, storeVars, delivered,
                 completionVars>>

\* win_getid returns; lines 44-48, 61-73.
WinGetId(t) ==
  /\ pc[t] = "win_getid"
  /\ winid' = WindowId
  /\ LET f == frame[t]
     IN  IF IsBlock(f.regtype)
         THEN /\ pc' = [pc EXCEPT ![t] = "winsaveview"]
              /\ UNCHANGED frame
         ELSE IF f.regtype = <<"v">>
         THEN /\ frame' = [frame EXCEPT ![t].ranges = CharRanges(f.lnum, f.character, f.regcontents)]
              /\ pc' = [pc EXCEPT ![t] = "resumeNotification"]
         ELSE IF f.regtype = <<"V">>
         THEN /\ frame' = [frame EXCEPT ![t].ranges = LineRanges(lines, f.lnum, f.regcontents)]
              /\ pc' = [pc EXCEPT ![t] = "resumeNotification"]
         ELSE /\ pc' = [pc EXCEPT ![t] = "done"]
              /\ UNCHANGED frame
  /\ UNCHANGED <<configVars, editorVars, overlayVars, storeVars, delivered, completionVars>>

\* winsaveview returns; line 49.
WinSaveView(t) ==
  /\ pc[t] = "winsaveview"
  /\ frame' = [frame EXCEPT ![t].view = cursor]
  /\ pc' = [pc EXCEPT ![t] = "setpos"]
  /\ UNCHANGED <<configVars, editorVars, winid, overlayVars, storeVars, delivered,
                 completionVars>>

\* Where the block loop goes with i: its body, or past it.
LoopOrRestore(i, lnum, regcontents) ==
  IF i < lnum + Len(regcontents) THEN "col" ELSE "winrestview"

\* The editor puts the cursor on a byte column of a line: on the character
\* holding that byte, the last character when the column is past the end.
PutCursor(ls, lnum, col) ==
  LET l == Max(1, Min(lnum, Len(ls)))
      on == {c \in CursorCols(ls[l]) : c <= col}
  IN  [lnum |-> l, col |-> IF on = {} THEN 1 ELSE CHOOSE c \in on : \A d \in on : d <= c]

\* setpos('.', [0, lnum, col, 0]) returns; lines 50-51.
SetPos(t) ==
  /\ pc[t] = "setpos"
  /\ LET f == frame[t]
     IN  /\ cursor' = PutCursor(lines, f.lnum, f.col)
         /\ frame' = [frame EXCEPT ![t].i = f.lnum]
         /\ pc' = [pc EXCEPT ![t] = LoopOrRestore(f.lnum, f.lnum, f.regcontents)]
  /\ UNCHANGED <<configVars, lines, mark, winid, overlayVars, storeVars, delivered,
                 completionVars>>

\* col('.') returns; lines 52-57.
Col(t) ==
  /\ pc[t] = "col"
  /\ LET f == frame[t]
     IN  frame' = [frame EXCEPT ![t].ranges =
                     Append(f.ranges, BlockRange(lines, f.i, cursor.col, f.lnum, f.regcontents))]
  /\ pc' = [pc EXCEPT ![t] = "normal! j"]
  /\ UNCHANGED <<configVars, editorVars, winid, overlayVars, storeVars, delivered,
                 completionVars>>

\* The editor's j: one line down, on the same character index where the
\* line has it and on its last character otherwise; no move on the last line.
CursorDown(ls, cur) ==
  IF cur.lnum >= Len(ls) THEN cur
  ELSE LET k == Cardinality({c \in CursorCols(ls[cur.lnum]) : c < cur.col})
           next == ls[cur.lnum + 1]
       IN  [lnum |-> cur.lnum + 1,
            col  |-> IF next = <<>> THEN 1 ELSE ByteCol(next, Min(k, Len(next) - 1))]

\* 'normal! j' returns; lines 58, 51.
NormalJ(t) ==
  /\ pc[t] = "normal! j"
  /\ cursor' = CursorDown(lines, cursor)
  /\ LET f == frame[t]
     IN  /\ frame' = [frame EXCEPT ![t].i = f.i + 1]
         /\ pc' = [pc EXCEPT ![t] = LoopOrRestore(f.i + 1, f.lnum, f.regcontents)]
  /\ UNCHANGED <<configVars, lines, mark, winid, overlayVars, storeVars, delivered,
                 completionVars>>

\* winrestview(view) returns; line 60.
WinRestView(t) ==
  /\ pc[t] = "winrestview"
  /\ cursor' = frame[t].view
  /\ frame' = [frame EXCEPT ![t].restored = TRUE]
  /\ pc' = [pc EXCEPT ![t] = "resumeNotification"]
  /\ UNCHANGED <<configVars, lines, mark, winid, overlayVars, storeVars, delivered,
                 completionVars>>

\* doc.matchAddRanges(ranges, ...): one handle for the group, none for no ranges.
matchAddRanges(ranges, id) == IF ranges = <<>> THEN <<>> ELSE <<id>>

Schedule_Never(pending, ids) == pending

Schedule_CancelPrevious(pending, ids) == IF Len(ids) # 0 THEN {ids} ELSE pending

\* if (ids.length) setTimeout(() => clearmatches(ids), duration): the pending
\* timers after lines 77-81.
Schedule(pending, ids) == IF Len(ids) # 0 THEN pending \cup {ids} ELSE pending

\* lines 74-86: the notifications are flushed (the overlay shows), the
\* removal timer is set, and the record is built.
ResumeNotification(t) ==
  /\ pc[t] = "resumeNotification"
  /\ LET f == frame[t]
         ids == matchAddRanges(f.ranges, nextId)
     IN  /\ matches' = matches \cup {[id |-> ids[k], ranges |-> f.ranges] : k \in 1..Len(ids)}
         /\ nextId' = nextId + Len(ids)
         /\ timers' = Schedule(timers, ids)
         /\ frame' = [frame EXCEPT ![t].ids = ids, ![t].applied = TRUE]
         /\ pc' = [pc EXCEPT ![t] = RecordOrReturn(f.regcontents)]
  /\ UNCHANGED <<configVars, editorVars, winid, storeVars, delivered, completionVars>>

\* db.add returns: the record is in the store; line 87.
DbAdd(t) ==
  /\ pc[t] = "db.add"
  /\ LET f == frame[t]
     IN  /\ db' = add(db, HistoryRecord(f.regcontents, f.regtype, DocUri, f.lnum, f.col, DocFiletype))
         /\ origin' = Append(origin, [event |-> t, regtype |-> f.regtype])
  /\ pc' = [pc EXCEPT ![t] = "done"]
  /\ UNCHANGED <<configVars, editorVars, winid, frame, overlayVars, delivered,
                 completionVars>>

\* The timer of line 78 fires: coc#util#clearmatches(ids).
Timeout(ids) ==
  /\ ids \in timers
  /\ timers' = timers \ {ids}
  /\ matches' = {m \in matches : \A k \in 1..Len(ids) : m.id # ids[k]}
  /\ UNCHANGED <<configVars, editorVars, winid, pc, frame, nextId, storeVars, delivered,
                 completionVars>>

Handler(t) ==
  \/ TextYankPost(t)
  \/ GetPos(t)
  \/ WinGetId(t)
  \/ WinSaveView(t)
  \/ SetPos(t)
  \/ Col(t)
  \/ NormalJ(t)
  \/ WinRestView(t)
  \/ ResumeNotification(t)
  \/ DbAdd(t)

Next ==
  \/ \E t \in Tasks : Handler(t)
  \/ \E ids \in timers : Timeout(ids)

Spec == Init /\ [][Next]_vars

(***************************************************************************)
(* One callback whose awaited calls may fail                               *)
(***************************************************************************)

\* The awaits of the callback (lines 38, 44, 49, 50, 52, 58, 60, 76, 87).
Awaits ==
  {"getpos", "win_getid", "winsaveview", "setpos", "col", "normal! j", "winrestview",
   "resumeNotification", "db.add"}

\* The call the callback awaits fails: the await throws, nothing catches it,
\* and the callback ends there (there is no try, catch or finally in lines
\* 27-88).
Reject(t) ==
  /\ pc[t] \in Awaits
  /\ pc' = [pc EXCEPT ![t] = "threw"]
  /\ UNCHANGED <<configVars, editorVars, winid, frame, overlayVars, storeVars, delivered,
                 completionVars>>

\* The first event's callback alone.
NextReject ==
  \/ Handler(1)
  \/ Reject(1)
  \/ \E ids \in timers : Timeout(ids)

SpecReject == Init /\ [][NextReject]_vars

(***************************************************************************)
(* Highlighted yanks whose timers fire                                     *)
(***************************************************************************)

\* The yanks that start at the first character of the document.
FirstCharacterPayloads == {y \in YankPayloads(lines) : y.lnum = 1 /\ y.col = 1}

InitHighlight ==
  /\ enable = TRUE
  /\ maxLength = DefaultByteLengthLimit
  /\ InitCallback
  /\ db = <<>>
  /\ origin = <<>>

YankHighlighted(t) == Deliver(t, FirstCharacterPayloads, {"y"}, {AttachedBufnr})

\* The overlays go away by other means than the timer (clearmatches() in
\* the window, the window closing): the handles a pending timer holds no
\* longer exist when it fires.
ClearMatches ==
  /\ matches # {}
  /\ matches' = {}
  /\ UNCHANGED <<configVars, editorVars, winid, pc, frame, timers, nextId, storeVars,
                 delivered, completionVars>>

NextHighlight ==
  \/ \E t \in Tasks :
       \/ YankHighlighted(t)
       \/ GetPos(t)
       \/ WinGetId(t)
       \/ WinSaveView(t)
       \/ SetPos(t)
       \/ Col(t)
       \/ NormalJ(t)
       \/ WinRestView(t)
       \/ ResumeNotification(t)
       \/ DbAdd(t)
  \/ \E ids \in timers : Timeout(ids)
  \/ ClearMatches

\* The handles matchAddRanges can give: one per callback.
Handles == 1..Cardinality(Tasks)

\* A timer set by setTimeout fires once its duration is over.
SpecHighlight ==
  /\ InitHighlight
  /\ [][NextHighlight]_vars
  /\ \A id \in Handles : WF_vars(Timeout(<<id>>))

(***************************************************************************)
(* Line-wise yanks under the default byte length limit                     *)
(***************************************************************************)

LinewisePayloads == {y \in YankPayloads(lines) : y.regtype = <<"V">>}

InitLinewise ==
  /\ enable = TRUE
  /\ maxLength = DefaultByteLengthLimit
  /\ InitCallback
  /\ db = <<>>
  /\ origin = <<>>

YankLinewise(t) == Deliver(t, LinewisePayloads, Operators, {AttachedBufnr})

NextLinewise ==
  \/ \E t \in Tasks :
       \/ YankLinewise(t)
       \/ GetPos(t)
       \/ WinGetId(t)
       \/ ResumeNotification(t)
       \/ DbAdd(t)
  \/ \E ids \in timers : Timeout(ids)

SpecLinewise == InitLinewise /\ [][NextLinewise]_vars

(***************************************************************************)
(* The completion source: provideCompletionItems                           *)
(***************************************************************************)

\* Largest number of records in the store when completion is asked for.
MaxHistory == 2
\* Largest configured value of yank.limit.
MaxLimit == 2

BlockTag == <<"^", "v">>

LanguagePrefixFilter_TrimStart(o, languageId, input) ==
  IF o.regtype = BlockTag THEN FALSE
  ELSE o.filetype = languageId /\ startsWith(trimStart(o.content[1]), input)

LanguagePrefixFilter_KeepBlock(o, languageId, input) ==
  o.filetype = languageId /\ startsWith(trim(o.content[1]), input)

\* items.filter(o => { if (o.regtype == '^v') return false
\*   return o.filetype == document.languageId && o.content[0].trim().startsWith(option.input) })
LanguagePrefixFilter(o, languageId, input) ==
  IF o.regtype = BlockTag THEN FALSE
  ELSE o.filetype = languageId /\ startsWith(trim(o.content[1]), input)

\* let before_content = option.line.slice(0, option.col)
before_content(option) == slice(option.line, 0, option.col)

MidLine_Never(option) == FALSE

\* !/^\s*$/.test(before_content)
MidLine(option) == ~IsBlank(before_content(option))

\* lines 100-108: reverse, the language/prefix filter, the line-wise filter.
Filtered(items, languageId, option) ==
  LET Matches(o) == LanguagePrefixFilter(o, languageId, option.input)
      NotLinewise(o) == o.regtype # <<"V">>
      matching == SelectSeq(reverse(items), Matches)
  IN  IF MidLine(option) THEN SelectSeq(matching, NotLinewise) ELSE matching

\* items = items.slice(0, limit), for limit >= 0
Truncated(items, limit) == slice(items, 0, limit)

Suggest_TruncateFirst(items, languageId, option, limit) ==
  Filtered(reverse(Truncated(reverse(items), limit)), languageId, option)

\* lines 99-109: the records of db.load() an item is made of, in order.
Suggest(items, languageId, option, limit) ==
  Truncated(Filtered(items, languageId, option), limit)

\* The common indentation: the least leading-whitespace length of the lines.
RECURSIVE Indent(_)
Indent(content) ==
  IF Len(content) = 1 THEN LeadingSpace(content[1])
  ELSE Min(LeadingSpace(content[1]), Indent(Tail(content)))

Dedented_TrimEveryLine(content) == [i \in 1..Len(content) |-> trimStart(content[i])]

Dedented_OffByOne(content) ==
  [i \in 1..Len(content) |->
     IF i = 1 THEN trimStart(content[1])
     ELSE slice(content[i], Indent(content) + 1, Len(content[i]))]

\* lines 115-118
Dedented(content) ==
  [i \in 1..Len(content) |->
     IF i = 1 THEN trimStart(content[1])
     ELSE slice(content[i], Indent(content), Len(content[i]))]

\* The three backquotes of a markdown code fence.
Fence == "fence"

\* function markdownBlock(code, filetype)
markdownBlock(code, filetype) ==
  LET ft1 == IF filetype = "javascriptreact" THEN "javascript" ELSE filetype
      ft2 == IF ft1 = "typescriptreact" THEN "typescript" ELSE ft1
  IN  <<Fence, " ", ft2, NL>> \o code \o <<NL, Fence>>

\* lines 110-128: the item made of one record.
CompletionItem(item) ==
  LET code == join(Dedented(item.content))
  IN  [label         |-> trim(item.content[1]),
       insertText    |-> code,
       kind          |-> "Snippet",
       documentation |-> [kind |-> "markdown", value |-> markdownBlock(code, item.filetype)]]

\* !option || !option.input
NoInput(option) == ~option.present \/ ~option.hasInput \/ option.input = <<>>

\* The languages of the documents and of the requests.
Filetypes == {"python", "javascriptreact"}

\* The typed inputs of a request.
Inputs == {<<"a", "b">>, <<"a", "b", " ">>, <<"a", "b", "c">>}

\* The line the cursor is on when completion is asked for.
CurrentLine == <<" ", "x">>

Options ==
  {NoOption}
  \cup {[present |-> TRUE, hasInput |-> FALSE, input |-> <<>>, line |-> CurrentLine, col |-> c]
        : c \in 0..Len(CurrentLine)}
  \cup {[present |-> TRUE, hasInput |-> TRUE, input |-> i, line |-> CurrentLine, col |-> c]
        : i \in Inputs \cup {<<>>}, c \in 0..Len(CurrentLine)}

Requests ==
  {[enabled |-> e, limit |-> l, languageId |-> ft, option |-> o]
   : e \in BOOLEAN, l \in 0..MaxLimit, ft \in Filetypes, o \in Options}

\* provideCompletionItems(document, _position, _token, context): the one
\* completion request of a behaviour (requests share no state but the store).
ProvideCompletionItems(req) ==
  /\ request = NoRequest
  /\ request' = req
  /\ IF ~req.enabled
     THEN /\ result' = Array(<<>>)
          /\ loaded' = FALSE
          /\ survivors' = <<>>
     ELSE IF NoInput(req.option)
     THEN /\ result' = Undefined
          /\ loaded' = FALSE
          /\ survivors' = <<>>
     ELSE LET items == Suggest(load(db), req.languageId, req.option, req.limit)
          IN  /\ loaded' = TRUE
              /\ survivors' = items
              /\ result' = Array([k \in 1..Len(items) |-> CompletionItem(items[k])])
  /\ UNCHANGED <<configVars, editorVars, winid, pc, frame, overlayVars, storeVars, delivered>>

\* The contents of the records in the store (each one the callback records:
\* 4 or more long).
SnippetContents == { <<abcd>>, << <<" ", "a", "b", " ">> >> }

RawRegtypes == {<<"v">>, <<"V">>, <<CtrlV, "2">>}

\* The sequences over S of length at most n.
SeqsUpTo(S, n) == UNION {[1..k -> S] : k \in 0..n}

\* The stores completion is asked over: what the callback appends, for any
\* contents, register types and filetypes.
InitCompletion ==
  /\ InitHandler
  /\ \E raws \in SeqsUpTo(SnippetContents \X RawRegtypes \X Filetypes, MaxHistory) :
       /\ db = [k \in 1..Len(raws) |->
                  HistoryRecord(raws[k][1], raws[k][2], DocUri, 1, 1, raws[k][3])]
       /\ origin = [k \in 1..Len(raws) |-> [event |-> k, regtype |-> raws[k][2]]]

NextCompletion == \E req \in Requests : ProvideCompletionItems(req)

SpecCompletion == InitCompletion /\ [][NextCompletion]_vars

(***************************************************************************)
(* Completion over one multi-line record: the indentation of the snippet   *)
(***************************************************************************)

\* Largest number of lines of a recorded snippet.
MaxSnippetLines == 3
\* Largest length of a line of a recorded snippet.
MaxSnippetLineLen == 2

foo == <<"f", "o", "o">>
bar == <<"b", "a", "r">>

\* The lines of the snippets: text and whitespace in any order.
SnippetLines == SeqsUpTo({"a", " "}, MaxSnippetLineLen)

\* The contents the callback records (4 or more long when joined), and the
\* snippet ["foo", "bar"].
DedentContents ==
  {c \in UNION {[1..n -> SnippetLines] : n \in 1..MaxSnippetLines} : ~TooShort(c)}
  \cup { <<foo, bar>> }

\* Requests at the start of an empty line, for the store's language.
DedentRequests ==
  {[enabled |-> TRUE, limit |-> 1, languageId |-> DocFiletype,
    option |-> [present |-> TRUE, hasInput |-> TRUE, input |-> i, line |-> <<>>, col |-> 0]]
   : i \in { <<"a">>, <<"f", "o">> }}

\* A store of one character-wise record.
InitDedent ==
  /\ InitHandler
  /\ enable
  /\ \E c \in DedentContents :
       db = <<HistoryRecord(c, <<"v">>, DocUri, 1, 1, DocFiletype)>>
  /\ origin = <<[event |-> 1, regtype |-> <<"v">>]>>

NextDedent == \E req \in DedentRequests : ProvideCompletionItems(req)

SpecDedent == InitDedent /\ [][NextDedent]_vars

(***************************************************************************)
(* Properties of the TextYankPost callback                                 *)
(***************************************************************************)

Returned(t) == pc[t] = "done"

\* The indices of the records the callback of event t appended.
RecordsOf(t) == {k \in 1..Len(origin) : origin[k].event = t}

Recognized(regtype) == IsBlock(regtype) \/ regtype = <<"v">> \/ regtype = <<"V">>

\* The content qualifies for the history: within the ceiling, 4 or more long.
Qualifies(regcontents) == ~OverLimit(regcontents, maxLength) /\ Len(join(regcontents)) >= 4

\* The callback of event t applied an overlay with at least one handle.
Highlighted(t) == frame[t].applied /\ frame[t].ids # <<>>

\* C1 (as claimed): a yank-operator event on an existing document, with a
\* recognized mode and highlighting enabled, whose content is over the byte
\* ceiling is not recorded but is still highlighted.
C1_OverLimitStillHighlighted ==
  \A t \in Tasks :
    (/\ Returned(t)
     /\ HasDocument(frame[t].bufnr)
     /\ frame[t].operator = "y"
     /\ Recognized(frame[t].regtype)
     /\ enable
     /\ OverLimit(frame[t].regcontents, maxLength))
    => (RecordsOf(t) = {} /\ Highlighted(t))

\* C2 (as claimed): a yank-operator event with an unrecognized mode (on an
\* existing document, highlighting enabled) builds no ranges and applies no
\* overlay, but is recorded whenever its content qualifies.
C2_UnrecognizedStillRecorded ==
  \A t \in Tasks :
    (/\ Returned(t)
     /\ HasDocument(frame[t].bufnr)
     /\ frame[t].operator = "y"
     /\ ~Recognized(frame[t].regtype)
     /\ enable)
    => (/\ frame[t].ranges = <<>>
        /\ ~frame[t].applied
        /\ (Qualifies(frame[t].regcontents) => RecordsOf(t) # {}))

\* C3 (as claimed): with highlighting disabled a yank-operator event (on an
\* existing document, with a recognized mode) applies no overlay and sets no
\* timer, and is recorded whenever its content qualifies.
C3_DisabledStillRecorded ==
  \A t \in Tasks :
    (/\ Returned(t)
     /\ HasDocument(frame[t].bufnr)
     /\ frame[t].operator = "y"
     /\ Recognized(frame[t].regtype)
     /\ ~enable)
    => (/\ ~frame[t].applied
        /\ timers = {}
        /\ (Qualifies(frame[t].regcontents) => RecordsOf(t) # {}))

\* C4: every record of the store is the content of the event it came from,
\* which joined with newlines is 4 or more long and is within the byte
\* ceiling; an event appends at most one record; "abc" is never recorded;
\* and an event with content "abcd", a recognized mode, an existing document
\* and highlighting enabled is recorded exactly once when its callback is done.
C4_RecordsQualify ==
  /\ Len(origin) = Len(db)
  /\ \A k \in 1..Len(db) :
       /\ db[k].content = frame[origin[k].event].regcontents
       /\ Len(join(db[k].content)) >= 4
       /\ TotalByteLength(db[k].content) <= maxLength
       /\ db[k].content # <<abc>>
  /\ \A t \in Tasks : Cardinality(RecordsOf(t)) <= 1
  /\ \A t \in Tasks :
       (/\ Returned(t)
        /\ HasDocument(frame[t].bufnr)
        /\ Recognized(frame[t].regtype)
        /\ enable
        /\ frame[t].regcontents = <<abcd>>)
       => Cardinality(RecordsOf(t)) = 1

\* C4's case: both callbacks are done, one of a yank of "abc", which is not
\* in the store, and one of a yank of "abcd", which is.
C4_Witness ==
  \E t, u \in Tasks :
    /\ Returned(t) /\ Returned(u)
    /\ frame[t].operator = "y" /\ frame[t].regcontents = <<abc>> /\ frame[t].applied
    /\ RecordsOf(t) = {}
    /\ frame[u].operator = "y" /\ frame[u].regcontents = <<abcd>> /\ frame[u].applied
    /\ RecordsOf(u) # {}

\* C5: a record whose event's raw register type starts with 0x16 carries the
\* tag '^v'; no record's mode starts with 0x16; 'v' and 'V' are stored as is.
C5_BlockTagNormalized ==
  \A k \in 1..Len(db) :
    /\ startsWith(origin[k].regtype, <<CtrlV>>) => db[k].regtype = <<"^", "v">>
    /\ ~startsWith(db[k].regtype, <<CtrlV>>)
    /\ origin[k].regtype \in {<<"v">>, <<"V">>} => db[k].regtype = origin[k].regtype

\* C5's case: the store holds a record of a block-wise yank (raw type 0x16
\* and a width) and a record of a character-wise one.
C5_Witness ==
  \E k, j \in 1..Len(db) :
    /\ startsWith(origin[k].regtype, <<CtrlV>>) /\ Len(origin[k].regtype) > 1
    /\ db[k].regtype = <<"^", "v">>
    /\ origin[j].regtype = <<"v">> /\ db[j].regtype = <<"v">>

(***************************************************************************)
(* Properties of the completion source                                     *)
(***************************************************************************)

\* The last request got as far as db.load() and returned items.
Served == request # NoRequest /\ loaded

InSurvivors(o) == \E j \in 1..Len(survivors) : survivors[j] = o

\* The text of the current line before the column has a non-whitespace
\* character.
NonBlankBefore(option) ==
  \E k \in 1..Min(option.col, Len(option.line)) : ~IsSpace(option.line[k])

\* C6: no candidate is built from a record whose mode is the Block tag, so
\* none is built from a record of a block-wise yank (raw type 0x16...),
\* whatever the language, the typed prefix, the line prefix and the limit;
\* and the result holds one candidate per surviving record.
C6_NoBlockCandidate ==
  Served =>
    /\ result.defined
    /\ result.items = [k \in 1..Len(survivors) |-> CompletionItem(survivors[k])]
    /\ \A j \in 1..Len(survivors) : survivors[j].regtype # BlockTag
    /\ \A k \in 1..Len(db) : startsWith(origin[k].regtype, <<CtrlV>>) => ~InSurvivors(db[k])

\* C6's case: a record of a block-wise yank matches the request's language
\* and typed prefix, the limit leaves room for every record, and the request
\* returns candidates, none from that record.
C6_Witness ==
  /\ Served
  /\ request.limit >= Len(db)
  /\ survivors # <<>>
  /\ \E k \in 1..Len(db) :
       /\ startsWith(origin[k].regtype, <<CtrlV>>)
       /\ db[k].filetype = request.languageId
       /\ startsWith(trim(db[k].content[1]), request.option.input)
       /\ ~InSurvivors(db[k])

\* C7: when the text before the column is non-blank no candidate comes from
\* a Line-mode record; when it is empty or all whitespace every Line-mode
\* record that matches language and prefix is a candidate (the limit
\* leaving room for every record).
C7_LinewiseOnlyAtLineStart ==
  Served =>
    /\ NonBlankBefore(request.option) =>
         \A j \in 1..Len(survivors) : survivors[j].regtype # <<"V">>
    /\ (~NonBlankBefore(request.option) /\ request.limit >= Len(db)) =>
         \A k \in 1..Len(db) :
           (/\ db[k].regtype = <<"V">>
            /\ db[k].filetype = request.languageId
            /\ startsWith(trim(db[k].content[1]), request.option.input))
           => InSurvivors(db[k])

\* C7's case: the text before the column is non-blank, a Line-mode record
\* matches language and prefix exactly, and it is not among the candidates,
\* while another record is.
C7_Witness ==
  /\ Served
  /\ NonBlankBefore(request.option)
  /\ request.limit >= Len(db)
  /\ survivors # <<>>
  /\ \E k \in 1..Len(db) :
       /\ db[k].regtype = <<"V">>
       /\ db[k].filetype = request.languageId
       /\ trim(db[k].content[1]) = request.option.input
       /\ ~InSurvivors(db[k])

\* C8 (as claimed): a request without typed input (no option, or no or an
\* empty input) returns an empty list, not undefined, and does not read the
\* store.
C8_NoInputEmptyList ==
  (request # NoRequest /\ NoInput(request.option)) =>
    (result = Array(<<>>) /\ ~loaded)

\* A record passes every filter of the request.
Passes(o) ==
  /\ o.regtype # BlockTag
  /\ o.filetype = request.languageId
  /\ startsWith(trim(o.content[1]), request.option.input)
  /\ NonBlankBefore(request.option) => o.regtype # <<"V">>

\* The records at the n largest indices of idx, the largest first.
RECURSIVE MostRecent(_, _)
MostRecent(idx, n) ==
  IF n = 0 \/ idx = {} THEN <<>>
  ELSE LET m == CHOOSE i \in idx : \A j \in idx : j <= i
       IN  <<db[m]>> \o MostRecent(idx \ {m}, n - 1)

\* C9: the result has at most limit candidates, made of the limit most
\* recently appended records among those that pass every filter, the most
\* recent first.
C9_MostRecentMatches ==
  Served =>
    /\ Len(result.items) <= request.limit
    /\ Len(result.items) = Len(survivors)
    /\ survivors = MostRecent({k \in 1..Len(db) : Passes(db[k])}, request.limit)

\* C9's case: the newest record does not pass, the limit is smaller than the
\* store, and an older record that passes is returned.
C9_Witness ==
  /\ Served
  /\ Len(db) >= 2
  /\ request.limit = 1
  /\ ~Passes(db[Len(db)])
  /\ Passes(db[1])
  /\ survivors = <<db[1]>>
  /\ Len(result.items) = 1

\* The request's other filters and its limit let every record through that
\* passes the language/prefix filter.
OnlyLanguagePrefix == request.limit >= Len(db) /\ ~NonBlankBefore(request.option)

\* C10 (as claimed): a non-Block record passes the language/prefix filter
\* if and only if its filetype is the document's language and its first
\* line without its leading whitespace (the trailing whitespace kept)
\* starts with the typed prefix.
C10_LeadingTrimOnly ==
  (Served /\ OnlyLanguagePrefix) =>
    \A k \in 1..Len(db) :
      db[k].regtype # BlockTag =>
        (InSurvivors(db[k]) <=>
           /\ db[k].filetype = request.languageId
           /\ startsWith(trimStart(db[k].content[1]), request.option.input))

\* C10 (amended): ... and its first line without its leading and trailing
\* whitespace starts with the typed prefix.
C10_BothSidesTrimmed ==
  (Served /\ OnlyLanguagePrefix) =>
    \A k \in 1..Len(db) :
      db[k].regtype # BlockTag =>
        (InSurvivors(db[k]) <=>
           /\ db[k].filetype = request.languageId
           /\ startsWith(trim(db[k].content[1]), request.option.input))

\* C10's case: the typed prefix ends in whitespace and runs into the
\* trailing whitespace of a record's first line, and that record of the
\* document's language is not a candidate.
C10_Witness ==
  /\ Served /\ OnlyLanguagePrefix
  /\ \E k \in 1..Len(db) :
       /\ db[k].regtype # BlockTag
       /\ db[k].filetype = request.languageId
       /\ IsSpace(request.option.input[Len(request.option.input)])
       /\ startsWith(trimStart(db[k].content[1]), request.option.input)
       /\ ~InSurvivors(db[k])

(***************************************************************************)
(* Properties of the snippet's indentation                                 *)
(***************************************************************************)

\* The length of the run of whitespace s starts with.
WhitespaceRun(s) ==
  CHOOSE n \in 0..Len(s) :
    /\ \A k \in 1..n : IsSpace(s[k])
    /\ n < Len(s) => ~IsSpace(s[n + 1])

\* The least whitespace run over all lines of content, the first included.
CommonIndentation(content) ==
  CHOOSE n \in {WhitespaceRun(content[i]) : i \in 1..Len(content)} :
    \A i \in 1..Len(content) : n <= WhitespaceRun(content[i])

\* s without its first n characters.
Without(s, n) == SubSeq(s, n + 1, Len(s))

\* s without the whitespace at its end.
WithoutTrailing(s) ==
  LET n == CHOOSE m \in 0..Len(s) :
             /\ \A k \in (m + 1)..Len(s) : IsSpace(s[k])
             /\ m > 0 => ~IsSpace(s[m])
  IN  SubSeq(s, 1, n)

\* The lines the claim gives for content.
ClaimedLines(content) ==
  [i \in 1..Len(content) |->
     IF i = 1 THEN Without(content[1], WhitespaceRun(content[1]))
     ELSE Without(content[i], CommonIndentation(content))]

\* C11: for every surviving record insertText is the newline-join of the
\* first line without its leading whitespace and of every later line without
\* its first k characters, k the least leading-whitespace run over all
\* lines; two later lines differ in indentation as before; label is the first
\* line trimmed on both sides; ["foo", "bar"] gives "foo" and "foo\nbar".
C11_InsertTextDedented ==
  Served =>
    \A j \in 1..Len(survivors) :
      LET content == survivors[j].content
          out == ClaimedLines(content)
      IN  /\ result.items[j].insertText = join(out)
          /\ result.items[j].label =
               WithoutTrailing(Without(content[1], WhitespaceRun(content[1])))
          /\ \A a, b \in 2..Len(content) :
               WhitespaceRun(Dedented(content)[a]) - WhitespaceRun(Dedented(content)[b])
                 = WhitespaceRun(content[a]) - WhitespaceRun(content[b])
          /\ content = <<foo, bar>> =>
               /\ result.items[j].label = foo
               /\ result.items[j].insertText = foo \o <<NL>> \o bar

\* C11's case: a candidate of a three-line snippet that is indented as a
\* whole and whose second and third lines are indented differently.
C11_Witness ==
  /\ Served
  /\ Len(survivors) = 1
  /\ LET content == survivors[1].content
     IN  /\ Len(content) = 3
         /\ CommonIndentation(content) > 0
         /\ WhitespaceRun(content[2]) # WhitespaceRun(content[3])
         /\ result.items[1].insertText = join(ClaimedLines(content))
         /\ result.items[1].insertText # join(content)

\* C12 (as claimed): the step leaves a snippet whose common indentation is 0
\* unchanged, and its output has common indentation 0, so applying it twice
\* gives the lines of applying it once.
C12_DedentedUnchanged ==
  Served =>
    \A j \in 1..Len(survivors) :
      LET content == survivors[j].content
      IN  /\ CommonIndentation(content) = 0 => Dedented(content) = content
          /\ CommonIndentation(Dedented(content)) = 0
          /\ Dedented(Dedented(content)) = Dedented(content)

\* C12 (amended): the step leaves a snippet unchanged whose common
\* indentation is 0 and whose first line starts with no whitespace, as is
\* every output of the step, so applying it twice gives the lines of applying
\* it once.
C12_DedentIdempotent ==
  Served =>
    \A j \in 1..Len(survivors) :
      LET content == survivors[j].content
          once == Dedented(content)
      IN  /\ result.items[j].insertText = join(once)
          /\ (CommonIndentation(content) = 0 /\ WhitespaceRun(content[1]) = 0)
               => once = content
          /\ CommonIndentation(once) = 0 /\ WhitespaceRun(once[1]) = 0
          /\ Dedented(once) = once

\* C12's case: a candidate of a snippet whose common indentation is 0 (a
\* later line starts with text) and whose first line is indented: the step
\* changes it, and leaves its own output unchanged.
C12_Witness ==
  /\ Served
  /\ Len(survivors) = 1
  /\ LET content == survivors[1].content
     IN  /\ Len(content) > 1
         /\ CommonIndentation(content) = 0
         /\ WhitespaceRun(content[1]) > 0
         /\ Dedented(content) # content
         /\ Dedented(Dedented(content)) = Dedented(content)

(***************************************************************************)
(* Properties of the ranges                                                *)
(***************************************************************************)

\* The number of characters of line that start before byte offset col.
CharsBefore(line, col) ==
  Cardinality({k \in 1..Len(line) : byteLength(SubSeq(line, 1, k - 1)) < col})

\* The document's line with 0-based index n, empty where there is none.
LiveLine(n) == IF n + 1 \in DOMAIN lines THEN lines[n + 1] ELSE <<>>

\* Handler t has built the ranges of a yank of this regtype.
Built(t, regtype) ==
  /\ frame[t].regtype = regtype
  /\ frame[t].operator = "y"
  /\ pc[t] = "resumeNotification" \/ frame[t].applied

\* C13: Char mode builds exactly one range; it starts at (startLine - 1, c),
\* c the character translation of the start byte column; for one captured
\* line of length L it ends on that line at c + L - 1; for N > 1 lines it
\* ends on line startLine + N - 2 at the length of the last fragment.
C13_CharModeRange ==
  \A t \in Tasks :
    Built(t, <<"v">>) =>
      LET f == frame[t]
          n == Len(f.regcontents)
          c == CharsBefore(LiveLine(f.lnum - 1), f.col)
      IN  /\ Len(f.ranges) = 1
          /\ f.ranges[1].start = [line |-> f.lnum - 1, character |-> c]
          /\ n = 1 => f.ranges[1].end =
                        [line |-> f.lnum - 1, character |-> c + Len(f.regcontents[1]) - 1]
          /\ n > 1 => f.ranges[1].end =
                        [line |-> f.lnum + n - 2, character |-> Len(f.regcontents[n])]

\* C13's case: one handler built the range of a single-line yank that starts
\* after a two-byte character, the other that of a two-line yank.
C13_Witness ==
  \E t, u \in Tasks :
    /\ Built(t, <<"v">>) /\ Built(u, <<"v">>)
    /\ Len(frame[t].regcontents) = 1
    /\ frame[t].col > frame[t].ranges[1].start.character
    /\ Len(frame[u].regcontents) = 2
    /\ frame[u].ranges[1].end.line = frame[u].ranges[1].start.line + 1

\* C14: Line mode builds N ranges for N captured lines, for the lines
\* startLine - 1 to startLine + N - 2 in ascending order, each from
\* character 0 to the length of that line in the live document.
C14_LineModeRanges ==
  \A t \in Tasks :
    Built(t, <<"V">>) =>
      LET f == frame[t]
      IN  /\ Len(f.ranges) = Len(f.regcontents)
          /\ \A k \in 1..Len(f.regcontents) :
               /\ f.ranges[k].start = [line |-> f.lnum + k - 2, character |-> 0]
               /\ f.ranges[k].end =
                    [line |-> f.lnum + k - 2, character |-> Len(LiveLine(f.lnum + k - 2))]

\* C14's case: the ranges of a two-line yank, and the ranges of a yank whose
\* fragment is not as long as the live line its range is for.
C14_Witness ==
  \E t, u \in Tasks :
    /\ Built(t, <<"V">>) /\ Built(u, <<"V">>)
    /\ Len(frame[t].ranges) = 2
    /\ frame[t].ranges[1].end.character # frame[t].ranges[2].end.character
    /\ Len(frame[u].regcontents[1]) # frame[u].ranges[1].end.character

\* Range r lies inside the document.
InDocument(r) ==
  /\ r.start.line \in 0..(Len(lines) - 1)
  /\ r.end.line \in 0..(Len(lines) - 1)
  /\ 0 <= r.start.character
  /\ r.start.line = r.end.line => r.start.character <= r.end.character
  /\ r.end.character <= Len(LiveLine(r.end.line))

\* C15: every range handed to the overlay operation lies inside the
\* document: its lines exist, 0 <= start <= end on a single-line range, and
\* its end character is at most the length of its end line.
C15_RangesInDocument ==
  \A t \in Tasks :
    frame[t].applied =>
      \A k \in 1..Len(frame[t].ranges) : InDocument(frame[t].ranges[k])

\* C16: in Block mode the view saved before the traversal is restored on
\* every exit path: a callback that saved the view and has ended, by
\* returning or by a failed editor call, has restored it.
C16_ViewRestoredOnEveryPath ==
  \A t \in Tasks :
    (pc[t] \in {"done", "threw"} /\ frame[t].view # NoPosition) => frame[t].restored

(***************************************************************************)
(* Properties of the overlays and their timers                             *)
(***************************************************************************)

\* The handles in ids.
HandlesOf(ids) == {ids[k] : k \in 1..Len(ids)}

\* The overlay with handle id is on display.
Shown(id) == \E m \in matches : m.id = id

\* Callback t gets the handles of its overlay and goes on (lines 75-81).
Applies(t) == pc[t] = "resumeNotification" /\ pc'[t] \in {"db.add", "done"}

C18_HighlightsIndependent ==
  /\ [][pc' # pc => (timers \subseteq timers' /\ matches \subseteq matches')]_vars
  /\ [][\A ids \in timers \ timers' :
          /\ timers' = timers \ {ids}
          /\ matches' = {m \in matches : m.id \notin HandlesOf(ids)}]_vars
  /\ [](\A m \in matches : \E ids \in timers : m.id \in HandlesOf(ids))
  /\ []((\A t \in Tasks : frame[t].applied) /\ timers = {} => matches = {})

\* C18's case: the second yank is highlighted while the first overlay is on
\* display and its timer pending.
C18_Witness ==
  /\ \A t \in Tasks :
       /\ frame[t].applied
       /\ frame[t].ids \in timers
       /\ \A id \in HandlesOf(frame[t].ids) : Shown(id)
  /\ frame[1].ids # frame[2].ids

(***************************************************************************)
(* Properties of overlapping callbacks                                     *)
(***************************************************************************)

\* Callback t has walked the lines of a block yank.
Walked(t) ==
  /\ IsBlock(frame[t].regtype)
  /\ frame[t].operator = "y"
  /\ pc[t] = "resumeNotification" \/ frame[t].applied

\* C19: Block mode builds exactly N ranges for N captured lines, the k-th on
\* line startLine + k - 2 (k from 1), from the character translation of the
\* cursor column the editor reports while the cursor is on that line to that
\* plus the length of the k-th fragment, however another callback's
\* cursor-moving calls interleave (the callback of the latest yank is looked
\* at, so that only callbacks have moved the cursor since it began); and once
\* both callbacks have finished, the cursor is where it was before either
\* began to walk (both yanks started where the mark is, so that is where
\* either yank left the cursor).
C19_BlockRangesUnderInterleaving ==
  /\ [](\A t \in Tasks :
          Walked(t) =>
            /\ Len(frame[t].ranges) = Len(frame[t].regcontents)
            /\ \A k \in 1..Len(frame[t].ranges) :
                 /\ frame[t].ranges[k].start.line = frame[t].lnum + k - 2
                 /\ frame[t].ranges[k].end =
                      [line |-> frame[t].lnum + k - 2,
                       character |-> frame[t].ranges[k].start.character
                                       + Len(frame[t].regcontents[k])])
  /\ [][\A t \in Tasks :
          (delivered = t /\ pc[t] = "col" /\ pc'[t] = "normal! j") =>
            /\ cursor.lnum = frame[t].i
            /\ frame'[t].ranges[Len(frame'[t].ranges)].start.character
                 = CharsBefore(LiveLine(frame[t].i - 1), cursor.col - 1)]_vars
  /\ []((\A t \in Tasks :
            /\ pc[t] = "done"
            /\ Walked(t)
            /\ frame[t].lnum = mark.lnum /\ frame[t].col = mark.col)
          => cursor = mark)

\* Callback t is past its early returns and before its call of db.add, with
\* content it is going to record (lines 48-87).
AboutToRecord(t) ==
  /\ pc[t] \in {"winsaveview", "setpos", "col", "normal! j", "winrestview",
                "resumeNotification"}
  /\ ~TooShort(frame[t].regcontents)

\* C20: when two events are handled concurrently the store receives their
\* records in the order the events were delivered, whatever the number of
\* suspension points of their callbacks: the store holds no record of a later
\* event while the callback of an earlier event has yet to call db.add for
\* its own record.
C20_RecordsInDeliveryOrder ==
  \A t, u \in Tasks :
    (t < u /\ RecordsOf(u) # {}) => ~AboutToRecord(t)

====
